---- MODULE Spec2Model ----
(***************************************************************************)
(* Model of anago/preprocess.py: StaticPreprocessor (vocabulary building   *)
(* and encoding), DynamicPreprocessor (batch padding) and                  *)
(* pad_nested_sequences.                                                   *)
(*                                                                         *)
(* A Python str is a sequence of one-character strings, so that lower(),   *)
(* normalize_number() and the iteration over a word's characters are       *)
(* computed character by character.  A Python dict is the sequence of its  *)
(* entries [k, v] in insertion order.                                      *)
(***************************************************************************)
EXTENDS Integers, Sequences, FiniteSets, TLC

VARIABLES lowercase, num_norm, char_feature, vocab_init,
          word_dic, char_dic, label_dic,
          nfit, call, rt, threads, batch

vars == <<lowercase, num_norm, char_feature, vocab_init,
          word_dic, char_dic, label_dic, nfit, call, rt, threads, batch>>

flags == <<lowercase, num_norm, char_feature, vocab_init>>
dics == <<word_dic, char_dic, label_dic>>

-----------------------------------------------------------------------------
(* Bounds of the model.                                                    *)

\* number of fit calls on one builder (lifecycle specification)
MaxFits == 2
\* sentences per corpus and words per sentence (lifecycle specification)
MaxSents == 1
MaxSentLen == 1
\* largest label id a caller hands to inverse_transform
MaxDocId == 2

-----------------------------------------------------------------------------
(* Strings.                                                                *)

UNK == <<"<", "U", "N", "K", ">">>
PAD == <<"<", "P", "A", "D", ">">>

\* str.lower() on the characters the model's tokens are made of
LowerChar(c) ==
    CASE c = "A" -> "a"
      [] c = "D" -> "d"
      [] c = "K" -> "k"
      [] c = "N" -> "n"
      [] c = "P" -> "p"
      [] c = "U" -> "u"
      [] OTHER -> c

lower(w) == [i \in 1..Len(w) |-> LowerChar(w[i])]

\* the character class [0-9] of the regular expression (the full-width
\* digits of the class are not among the model's characters)
Digits == {"0", "1", "2", "3", "4", "5", "6", "7", "8", "9"}

normalize_number(text) ==
    [i \in 1..Len(text) |-> IF text[i] \in Digits THEN "0" ELSE text[i]]

\* the tokens of the model's corpora: a pair that lower() identifies
\* (A2, a2), a pair that normalize_number identifies (a2, a9), and the two
\* placeholder strings themselves
Words == {<<"A", "2">>, <<"a", "2">>, <<"a", "9">>, PAD, UNK}
Labels == {<<"O">>, <<"B">>, PAD}

-----------------------------------------------------------------------------
(* dict.                                                                   *)

Keys(d) == {d[i].k : i \in DOMAIN d}
Has(d, key) == key \in Keys(d)
Get(d, key) == d[CHOOSE i \in DOMAIN d : d[i].k = key].v
GetDefault(d, key, default) == IF Has(d, key) THEN Get(d, key) ELSE default
Put(d, key, val) ==
    IF Has(d, key)
    THEN [i \in DOMAIN d |-> IF d[i].k = key THEN [k |-> key, v |-> val] ELSE d[i]]
    ELSE Append(d, [k |-> key, v |-> val])

\* the orders in which a Python set may be iterated
Orderings(S) ==
    {s \in [1..Cardinality(S) -> S] : \A i, j \in DOMAIN s : i # j => s[i] # s[j]}

RECURSIVE Chain(_)
Chain(X) == IF X = <<>> THEN <<>> ELSE Head(X) \o Chain(Tail(X))
Elems(s) == {s[i] : i \in DOMAIN s}

-----------------------------------------------------------------------------
(* StaticPreprocessor.                                                     *)

InitWordDic == <<[k |-> PAD, v |-> 0], [k |-> UNK, v |-> 1]>>
InitCharDic == <<[k |-> PAD, v |-> 0], [k |-> UNK, v |-> 1]>>
InitLabelDic == <<[k |-> PAD, v |-> 0]>>

Normalize(w) ==
    LET w1 == IF lowercase THEN lower(w) ELSE w
    IN  IF num_norm THEN normalize_number(w1) ELSE w1

\* the inner loop of fit over the characters of one word
RECURSIVE FitChars(_, _)
FitChars(w, cd) ==
    IF w = <<>> THEN cd
    ELSE LET c == <<Head(w)>>
         IN  FitChars(Tail(w), IF Has(cd, c) THEN cd ELSE Put(cd, c, Len(cd)))

\* self.word_dic[w] = len(self.word_dic)
AssignWord(wd, w) == Put(wd, w, Len(wd))

\* self.label_dic[t] = len(self.label_dic)
AssignLabel(ld, t) == Put(ld, t, Len(ld))

\* the loop of fit over the words, in the iteration order ws
RECURSIVE FitWords(_, _, _)
FitWords(ws, cd, wd) ==
    IF ws = <<>> THEN [cd |-> cd, wd |-> wd]
    ELSE FitWords(Tail(ws),
                  IF char_feature THEN FitChars(Head(ws), cd) ELSE cd,
                  AssignWord(wd, Normalize(Head(ws))))

\* the loop of fit over the labels, in the iteration order ls
RECURSIVE FitLabels(_, _)
FitLabels(ls, ld) ==
    IF ls = <<>> THEN ld ELSE FitLabels(Tail(ls), AssignLabel(ld, Head(ls)))

\* self._get_char_ids(word)
get_char_ids(word) ==
    [i \in 1..Len(word) |-> GetDefault(char_dic, <<word[i]>>, Get(char_dic, UNK))]

\* a fallback to the PAD id in place of the UNK id
WordIdOrPad(w) == GetDefault(word_dic, Normalize(w), Get(word_dic, PAD))

\* self.word_dic.get(w, self.word_dic[UNK]) on the normalized word
WordId(w) == GetDefault(word_dic, Normalize(w), Get(word_dic, UNK))

\* a lookup that substitutes the PAD id for a missing label
LookupLabelOrPad(t) ==
    [exc |-> "none", v |-> GetDefault(label_dic, t, Get(label_dic, PAD))]

\* self.label_dic[t]: the id, or the KeyError of a missing key
LookupLabel(t) ==
    IF Has(label_dic, t) THEN [exc |-> "none", v |-> Get(label_dic, t)]
    ELSE [exc |-> "KeyError", v |-> 0]

\* an optional argument: None, or a value
None == [some |-> FALSE, val |-> <<>>]
Some(v) == [some |-> TRUE, val |-> v]

\* one pass of the loop over the sentences: word_ids and char_ids of sent
\* (char_ids stays empty without char_feature)
EncodeSentence(sent) ==
    [word_ids |-> [j \in 1..Len(sent) |-> WordId(sent[j])],
     char_ids |-> IF char_feature
                  THEN [j \in 1..Len(sent) |-> get_char_ids(sent[j])]
                  ELSE <<>>]

\* [[self.label_dic[t] for t in sent] for sent in y]
EncodeLabels(y) ==
    LET looked == [s \in 1..Len(y) |-> [j \in 1..Len(y[s]) |-> LookupLabel(y[s][j])]]
    IN  IF \E s \in DOMAIN looked : \E j \in DOMAIN looked[s] : looked[s][j].exc # "none"
        THEN [exc |-> "KeyError", ids |-> <<>>]
        ELSE [exc |-> "none",
              ids |-> [s \in 1..Len(y) |-> [j \in 1..Len(y[s]) |-> looked[s][j].v]]]

\* the end of transform, from the encoded sentences: the label lookup, then
\* inputs = [words, chars] or [words] (np.array keeps the nested ids as
\* they are)
TransformEnd(words, chars, y) ==
    LET l == IF y.some THEN EncodeLabels(y.val) ELSE [exc |-> "none", ids |-> <<>>]
    IN  IF l.exc # "none"
        THEN [exc |-> l.exc, inputs |-> <<>>, ids |-> <<>>]
        ELSE [exc |-> "none",
              inputs |-> IF char_feature THEN <<words, chars>> ELSE <<words>>,
              ids |-> l.ids]

\* what transform(X, y) returns or raises, on the builder's present state
TransformRet(X, y) ==
    TransformEnd([s \in 1..Len(X) |-> EncodeSentence(X[s]).word_ids],
                 [s \in 1..Len(X) |-> EncodeSentence(X[s]).char_ids],
                 y)

\* id2label = {i: t for t, i in self.label_dic.items()}: of the keys that
\* hold an id, the last in label_dic's order stays
Id2LabelOf(ld) ==
    [i \in {ld[n].v : n \in DOMAIN ld} |->
        ld[CHOOSE n \in DOMAIN ld :
              ld[n].v = i /\ \A m \in DOMAIN ld : ld[m].v = i => m <= n].k]

\* [[id2label[t] for t in doc] for doc in docs]
Decode(id2label, docs) ==
    IF \E d \in DOMAIN docs : \E j \in DOMAIN docs[d] : docs[d][j] \notin DOMAIN id2label
    THEN [exc |-> "KeyError", labels |-> <<>>]
    ELSE [exc |-> "none",
          labels |-> [d \in 1..Len(docs) |->
                        [j \in 1..Len(docs[d]) |-> id2label[docs[d][j]]]]]

\* what inverse_transform(docs) returns or raises
InverseRet(docs) == Decode(Id2LabelOf(label_dic), docs)

-----------------------------------------------------------------------------
(* The calls on one builder.  call is the call the caller is in: its       *)
(* arguments and what it returned or raised.                               *)

NoCall == [op |-> "none", X |-> <<>>, y |-> None, docs |-> <<>>,
           exc |-> "none", inputs |-> <<>>, ids |-> <<>>, labels |-> <<>>]

\* fit(X, y), with the label corpus y that its second loop iterates: the
\* two loops run over sets, in any iteration order
Fit(X, y) ==
    /\ \E ws \in Orderings(Elems(Chain(X)) \cup vocab_init),
          ls \in Orderings(Elems(Chain(y))) :
          LET r == FitWords(ws, char_dic, word_dic)
          IN  /\ word_dic' = r.wd
              /\ char_dic' = r.cd
              /\ label_dic' = FitLabels(ls, label_dic)
    /\ nfit' = nfit + 1
    /\ call' = [NoCall EXCEPT !.op = "fit", !.X = X, !.y = Some(y)]
    /\ UNCHANGED flags

Transform(X, y) ==
    /\ LET r == TransformRet(X, y)
       IN  call' = [NoCall EXCEPT !.op = "transform", !.X = X, !.y = y,
                                  !.exc = r.exc, !.inputs = r.inputs, !.ids = r.ids]
    /\ UNCHANGED <<flags, dics, nfit>>

InverseTransform(docs) ==
    /\ LET r == InverseRet(docs)
       IN  call' = [NoCall EXCEPT !.op = "inverse_transform", !.docs = docs,
                                  !.exc = r.exc, !.labels = r.labels]
    /\ UNCHANGED <<flags, dics, nfit>>

-----------------------------------------------------------------------------
(* Inputs.                                                                 *)

SeqsUpTo(S, n) == UNION {[1..k -> S] : k \in 0..n}
\* corpora of at most ns sentences of at most nl tokens of W
CorporaOf(W, ns, nl) == SeqsUpTo(SeqsUpTo(W, nl), ns)
\* the label corpora with one label per word of X
LabelCorporaFor(X, ns, nl) ==
    {y \in CorporaOf(Labels, ns, nl) :
        Len(y) = Len(X) /\ \A s \in DOMAIN X : Len(y[s]) = Len(X[s])}

Corpora == CorporaOf(Words, MaxSents, MaxSentLen)
LabelCorpora(X) == LabelCorporaFor(X, MaxSents, MaxSentLen)
Docs == CorporaOf(0..MaxDocId, MaxSents, MaxSentLen)
VocabInits == {{}, {<<"a", "9">>}}

NoRt == [pc |-> "off", X |-> <<>>, L |-> <<>>]

InitBuilder ==
    /\ lowercase \in BOOLEAN
    /\ num_norm \in BOOLEAN
    /\ char_feature \in BOOLEAN
    /\ word_dic = InitWordDic
    /\ char_dic = InitCharDic
    /\ label_dic = InitLabelDic
    /\ nfit = 0
    /\ call = NoCall

-----------------------------------------------------------------------------
(* Spec: one caller, any sequence of fit, transform and inverse_transform  *)
(* on one builder.                                                         *)

Init ==
    /\ InitBuilder
    /\ vocab_init \in VocabInits
    /\ rt = NoRt
    /\ threads = <<>>
    /\ batch = <<>>

DoFit ==
    /\ call.op = "none"
    /\ nfit < MaxFits
    /\ \E X \in Corpora : \E y \in LabelCorpora(X) : Fit(X, y)
    /\ UNCHANGED <<rt, threads, batch>>

DoTransform ==
    /\ call.op = "none"
    /\ \E X \in Corpora :
          \E y \in {None} \cup {Some(l) : l \in LabelCorpora(X)} : Transform(X, y)
    /\ UNCHANGED <<rt, threads, batch>>

DoInverseTransform ==
    /\ call.op = "none"
    /\ \E docs \in Docs : InverseTransform(docs)
    /\ UNCHANGED <<rt, threads, batch>>

\* the call returns to the caller
Return ==
    /\ call.op # "none"
    /\ call' = NoCall
    /\ UNCHANGED <<flags, dics, nfit, rt, threads, batch>>

Next == DoFit \/ DoTransform \/ DoInverseTransform \/ Return

Spec == Init /\ [][Next]_vars

-----------------------------------------------------------------------------
(* CallSpec: one caller and a builder that is fitted at most once; the     *)
(* caller may call transform and inverse_transform before the fit and      *)
(* after it.                                                               *)

\* words per sentence, and ids per document (CallSpec)
CallMaxSentLen == 1

CallCorpora == {<<sent>> : sent \in SeqsUpTo(Words, CallMaxSentLen)}
CallLabelCorpora(X) == {<<l>> : l \in [1..Len(X[1]) -> Labels]}
CallDocs == {<<doc>> : doc \in SeqsUpTo(0..2, CallMaxSentLen)}

CallFit ==
    /\ call.op = "none"
    /\ nfit = 0
    /\ \E X \in CallCorpora : \E y \in CallLabelCorpora(X) : Fit(X, y)
    /\ UNCHANGED <<rt, threads, batch>>

CallTransform ==
    /\ call.op = "none"
    /\ \E X \in CallCorpora :
          \E y \in {None} \cup {Some(l) : l \in CallLabelCorpora(X)} : Transform(X, y)
    /\ UNCHANGED <<rt, threads, batch>>

CallInverseTransform ==
    /\ call.op = "none"
    /\ \E docs \in CallDocs : InverseTransform(docs)
    /\ UNCHANGED <<rt, threads, batch>>

CallNext == CallFit \/ CallTransform \/ CallInverseTransform \/ Return

CallSpec == Init /\ [][CallNext]_vars

-----------------------------------------------------------------------------
(* Properties of the vocabularies.                                         *)

Injective(d) == \A i, j \in DOMAIN d : d[i].v = d[j].v => i = j
\* every id d gives is the id e gives
Stable(d, e) == \A key \in Keys(d) : Has(e, key) /\ Get(e, key) = Get(d, key)
\* ids grow along the insertion order, the order of first observation
Increasing(d) == \A i, j \in DOMAIN d : i < j => d[i].v < d[j].v
FlatSet(X) == Elems(Chain(X))

\* C2: ids are assigned in strictly increasing order as tokens are first
\* observed, and no step (fit, transform, inverse_transform) changes the id
\* a token already has, in any of the three vocabularies.
C2_IdStability ==
    [][/\ Stable(word_dic, word_dic') /\ Increasing(word_dic')
       /\ Stable(char_dic, char_dic') /\ Increasing(char_dic')
       /\ Stable(label_dic, label_dic') /\ Increasing(label_dic')]_vars

\* C3: after fit on a fresh builder, PAD is 0 and UNK is 1 in the word and
\* character vocabularies and PAD is 0 in the label vocabulary.
C3_ReservedIds ==
    nfit = 1 =>
        /\ Get(word_dic, PAD) = 0 /\ Get(word_dic, UNK) = 1
        /\ Get(char_dic, PAD) = 0 /\ Get(char_dic, UNK) = 1
        /\ Get(label_dic, PAD) = 0

\* C4: transform on a fitted builder never raises over a word or a
\* character, and encodes every word whose normalized form is not in the
\* word vocabulary, and every character not in the character vocabulary,
\* as 1.
C4_UnknownIsUnk ==
    (nfit >= 1 /\ call.op = "transform") =>
        /\ ~call.y.some => call.exc = "none"
        /\ call.exc = "none" =>
              \A s \in DOMAIN call.X : \A j \in DOMAIN call.X[s] :
                  /\ ~Has(word_dic, Normalize(call.X[s][j]))
                        => call.inputs[1][s][j] = 1
                  /\ char_feature =>
                        \A n \in DOMAIN call.X[s][j] :
                            ~Has(char_dic, <<call.X[s][j][n]>>)
                                => call.inputs[2][s][j][n] = 1

UnknownLabels(y) == {t \in FlatSet(y) : ~Has(label_dic, t)}

\* C5: transform on a fitted builder with a label corpus that holds a label
\* missing from the label vocabulary raises (KeyError), returns nothing, and
\* leaves the three vocabularies as they were.
C5_UnknownLabelRaises ==
    [][(/\ nfit >= 1
        /\ call.op = "none"
        /\ call'.op = "transform"
        /\ call'.y.some
        /\ UnknownLabels(call'.y.val) # {})
       => (/\ call'.exc = "KeyError"
           /\ call'.inputs = <<>>
           /\ call'.ids = <<>>
           /\ dics' = dics)]_vars

C5_Witness ==
    /\ nfit >= 1
    /\ Keys(label_dic) # {PAD}
    /\ call.op = "transform"
    /\ call.y.some
    /\ UnknownLabels(call.y.val) # {}
    /\ call.exc = "KeyError"

\* C6 as stated: transform or inverse_transform on a builder never fitted
\* raises an unfitted-state error.
C6_UnfittedRaises ==
    (nfit = 0 /\ call.op \in {"transform", "inverse_transform"})
        => call.exc = "UnfittedStateError"

\* C6 as amended: on a builder never fitted no unfitted-state error is
\* raised.  transform encodes from the placeholders alone (a word is 0 when
\* its normalized form is the PAD string and 1 otherwise, every character
\* is 1) and raises only the KeyError of a label other than PAD;
\* inverse_transform decodes id 0 to PAD and raises only the KeyError of
\* any other id.
C6_UnfittedEncodesPlaceholders ==
    (nfit = 0 /\ call.op \in {"transform", "inverse_transform"}) =>
        /\ call.exc \in {"none", "KeyError"}
        /\ call.op = "transform" =>
              /\ call.exc = "KeyError" <=>
                    (call.y.some /\ FlatSet(call.y.val) \ {PAD} # {})
              /\ call.exc = "none" =>
                    /\ \A s \in DOMAIN call.X : \A j \in DOMAIN call.X[s] :
                          /\ call.inputs[1][s][j] =
                                IF Normalize(call.X[s][j]) = PAD THEN 0 ELSE 1
                          /\ char_feature =>
                                \A n \in DOMAIN call.X[s][j] :
                                    call.inputs[2][s][j][n] = 1
                    /\ call.y.some =>
                          \A s \in DOMAIN call.ids : \A j \in DOMAIN call.ids[s] :
                              call.ids[s][j] = 0
        /\ call.op = "inverse_transform" =>
              /\ call.exc = "KeyError" <=> FlatSet(call.docs) \ {0} # {}
              /\ call.exc = "none" =>
                    \A d \in DOMAIN call.labels : \A j \in DOMAIN call.labels[d] :
                        call.labels[d][j] = PAD

C6_Witness ==
    /\ nfit = 0
    /\ call.op = "transform"
    /\ call.exc = "none"
    /\ call.X # <<>> /\ call.X[1] # <<>>
    /\ call.inputs[1][1][1] = 1

\* C10: after one or more fit calls, no two keys of a vocabulary have the
\* same id.
C10_Injective ==
    nfit >= 1 =>
        /\ Injective(word_dic)
        /\ Injective(char_dic)
        /\ Injective(label_dic)

-----------------------------------------------------------------------------
(* RoundTripSpec: a fresh builder, then fit(X, L), transform(X, L) and     *)
(* inverse_transform of the label ids transform returned.                  *)

\* sentences per corpus and words per sentence of the round trip
RtMaxSents == 2
RtMaxSentLen == 2
RtWords == {<<"A", "2">>, <<"a", "9">>}

RtInit ==
    /\ InitBuilder
    /\ vocab_init = {}
    /\ \E X \in CorporaOf(RtWords, RtMaxSents, RtMaxSentLen) :
          \E L \in LabelCorporaFor(X, RtMaxSents, RtMaxSentLen) :
              rt = [pc |-> "fit", X |-> X, L |-> L]
    /\ threads = <<>>
    /\ batch = <<>>

RtFit ==
    /\ rt.pc = "fit"
    /\ Fit(rt.X, rt.L)
    /\ rt' = [rt EXCEPT !.pc = "transform"]
    /\ UNCHANGED <<threads, batch>>

RtTransform ==
    /\ rt.pc = "transform"
    /\ Transform(rt.X, Some(rt.L))
    /\ rt' = [rt EXCEPT !.pc = "inverse_transform"]
    /\ UNCHANGED <<threads, batch>>

RtInverseTransform ==
    /\ rt.pc = "inverse_transform"
    /\ call.exc = "none"
    /\ InverseTransform(call.ids)
    /\ rt' = [rt EXCEPT !.pc = "done"]
    /\ UNCHANGED <<threads, batch>>

RtNext == RtFit \/ RtTransform \/ RtInverseTransform

RoundTripSpec == RtInit /\ [][RtNext]_vars

\* C1: fit(X, L), transform(X, L) and inverse_transform of the returned
\* label ids give back L, sentence by sentence and label by label.
C1_LabelRoundTrip ==
    /\ rt.pc = "inverse_transform" => call.exc = "none"
    /\ rt.pc = "done" => (call.exc = "none" /\ call.labels = rt.L)

-----------------------------------------------------------------------------
(* ConcSpec: after one fit, NThreads callers run transform and             *)
(* inverse_transform on the same builder, interleaved at the passes of     *)
(* transform's loop over the sentences and at the two statements of        *)
(* inverse_transform.  Each call's locals (words, chars, id2label) are the *)
(* thread's own.                                                           *)

NThreads == 2
\* sentences per corpus a concurrent caller passes
ConcMaxSents == 1

Idle == [pc |-> "idle", op |-> "none", X |-> <<>>, y |-> None, docs |-> <<>>,
         s |-> 0, words |-> <<>>, chars |-> <<>>, id2label |-> <<>>,
         exc |-> "none", inputs |-> <<>>, ids |-> <<>>, labels |-> <<>>]

\* what is fitted: one word, one label
ConcFitCorpora == {<<<<w>>>> : w \in {<<"a", "9">>, <<"A", "2">>}}
ConcFitLabels == {<<<<t>>>> : t \in {<<"O">>, <<"B">>}}
\* what the callers pass: corpora of the same two-word sentence, with or
\* without the label O on every word, and label ids
ConcCorpora == {[i \in 1..n |-> <<<<"a", "9">>, <<"A", "2">>>>] : n \in 0..ConcMaxSents}
LabelsLike(X) == [s \in 1..Len(X) |-> [j \in 1..Len(X[s]) |-> <<"O">>]]
ConcDocs == {<<<<0>>>>, <<<<0, 1>>>>}

ConcInit ==
    /\ InitBuilder
    /\ vocab_init = {}
    /\ rt = NoRt
    /\ threads = [t \in 1..NThreads |-> Idle]
    /\ batch = <<>>

\* fit, before any transform is called
ConcFit ==
    /\ nfit = 0
    /\ \E X \in ConcFitCorpora : \E y \in ConcFitLabels : Fit(X, y)
    /\ UNCHANGED <<rt, threads, batch>>

\* transform is entered: words = [], chars = []
ThTransformCall(t) ==
    /\ nfit >= 1
    /\ threads[t].pc = "idle"
    /\ \E X \in ConcCorpora : \E y \in {None, Some(LabelsLike(X))} :
          threads' = [threads EXCEPT ![t] =
                        [Idle EXCEPT !.pc = "sentences", !.op = "transform",
                                     !.X = X, !.y = y]]
    /\ UNCHANGED <<flags, dics, nfit, call, rt, batch>>

\* a pass of the loop that also stores each word it met in word_dic
ThTransformSentenceCaching(t) ==
    /\ threads[t].pc = "sentences"
    /\ threads[t].s < Len(threads[t].X)
    /\ LET sent == threads[t].X[threads[t].s + 1]
           e == EncodeSentence(sent)
       IN  /\ threads' = [threads EXCEPT ![t].s = @ + 1,
                                         ![t].words = Append(@, e.word_ids),
                                         ![t].chars = Append(@, e.char_ids)]
           /\ word_dic' = IF sent # <<>> /\ ~Has(word_dic, Normalize(sent[1]))
                          THEN Put(word_dic, Normalize(sent[1]), Len(word_dic))
                          ELSE word_dic
    /\ UNCHANGED <<flags, char_dic, label_dic, nfit, call, rt, batch>>

\* one pass of transform's loop over the sentences
ThTransformSentence(t) ==
    /\ threads[t].pc = "sentences"
    /\ threads[t].s < Len(threads[t].X)
    /\ LET e == EncodeSentence(threads[t].X[threads[t].s + 1])
       IN  threads' = [threads EXCEPT ![t].s = @ + 1,
                                      ![t].words = Append(@, e.word_ids),
                                      ![t].chars = Append(@, e.char_ids)]
    /\ UNCHANGED <<flags, dics, nfit, call, rt, batch>>

\* the loop is over: the label lookup and the result
ThTransformEnd(t) ==
    /\ threads[t].pc = "sentences"
    /\ threads[t].s = Len(threads[t].X)
    /\ LET r == TransformEnd(threads[t].words, threads[t].chars, threads[t].y)
       IN  threads' = [threads EXCEPT ![t].pc = "ret", ![t].exc = r.exc,
                                      ![t].inputs = r.inputs, ![t].ids = r.ids]
    /\ UNCHANGED <<flags, dics, nfit, call, rt, batch>>

\* inverse_transform is entered
ThInverseCall(t) ==
    /\ nfit >= 1
    /\ threads[t].pc = "idle"
    /\ \E docs \in ConcDocs :
          threads' = [threads EXCEPT ![t] =
                        [Idle EXCEPT !.pc = "id2label", !.op = "inverse_transform",
                                     !.docs = docs]]
    /\ UNCHANGED <<flags, dics, nfit, call, rt, batch>>

\* id2label = {i: t for t, i in self.label_dic.items()}
ThInverseId2Label(t) ==
    /\ threads[t].pc = "id2label"
    /\ threads' = [threads EXCEPT ![t].pc = "decode",
                                  ![t].id2label = Id2LabelOf(label_dic)]
    /\ UNCHANGED <<flags, dics, nfit, call, rt, batch>>

\* return [[id2label[t] for t in doc] for doc in docs]
ThInverseDecode(t) ==
    /\ threads[t].pc = "decode"
    /\ LET r == Decode(threads[t].id2label, threads[t].docs)
       IN  threads' = [threads EXCEPT ![t].pc = "ret", ![t].exc = r.exc,
                                      ![t].labels = r.labels]
    /\ UNCHANGED <<flags, dics, nfit, call, rt, batch>>

\* the call returns to its caller
ThReturn(t) ==
    /\ threads[t].pc = "ret"
    /\ threads' = [threads EXCEPT ![t] = Idle]
    /\ UNCHANGED <<flags, dics, nfit, call, rt, batch>>

ConcNext ==
    \/ ConcFit
    \/ \E t \in 1..NThreads :
          \/ ThTransformCall(t)
          \/ ThTransformSentence(t)
          \/ ThTransformEnd(t)
          \/ ThInverseCall(t)
          \/ ThInverseId2Label(t)
          \/ ThInverseDecode(t)
          \/ ThReturn(t)

ConcSpec == ConcInit /\ [][ConcNext]_vars

\* what the call thread record th is in returns when run alone on the builder
Alone(th) ==
    IF th.op = "transform"
    THEN LET r == TransformRet(th.X, th.y)
         IN  [exc |-> r.exc, inputs |-> r.inputs, ids |-> r.ids, labels |-> <<>>]
    ELSE LET r == InverseRet(th.docs)
         IN  [exc |-> r.exc, inputs |-> <<>>, ids |-> <<>>, labels |-> r.labels]

\* C9: once fit is done, no step of any transform or inverse_transform
\* call, however the calls interleave, changes a vocabulary or a flag, and
\* a call that ends has the result it has when run alone.
C9_TransformReadOnly ==
    [][nfit >= 1 =>
          /\ dics' = dics
          /\ flags' = flags
          /\ \A t \in 1..NThreads :
                threads'[t].pc = "ret" =>
                    [exc |-> threads'[t].exc, inputs |-> threads'[t].inputs,
                     ids |-> threads'[t].ids, labels |-> threads'[t].labels]
                        = Alone(threads'[t])]_vars

\* one call has returned encoded output while another is in the middle of
\* its own
C9_Witness ==
    \E t, u \in 1..NThreads :
        /\ t # u
        /\ threads[t].pc = "ret"
        /\ threads[t].op = "transform"
        /\ threads[t].exc = "none"
        /\ threads[t].X # <<>>
        /\ threads[u].pc \in {"sentences", "decode"}
        /\ threads[u].s >= 1 \/ threads[u].pc = "decode"

-----------------------------------------------------------------------------
(* DynamicPreprocessor and pad_nested_sequences.  A numpy array is the     *)
(* record of its shape and its nested rows x.                              *)

Max2(a, b) == IF a > b THEN a ELSE b

\* the running maximum of len over a list, from 0
RECURSIVE MaxLen(_)
MaxLen(seqs) == IF seqs = <<>> THEN 0 ELSE Max2(Len(Head(seqs)), MaxLen(Tail(seqs)))

\* keras pad_sequences(sequences, padding=padding), with its defaults
\* maxlen=None, truncating='pre', value=0: maxlen is np.max of the lengths
\* (a ValueError on no sequence at all), empty sequences are skipped, the
\* others are cut to their last maxlen entries and written at the left
\* ('post') or the right ('pre') end of a row of zeros
pad_sequences(sequences, padding) ==
    IF sequences = <<>> THEN [exc |-> "ValueError", shape |-> <<>>, x |-> <<>>]
    ELSE LET maxlen == MaxLen(sequences)
             trunc(q) == IF Len(q) > maxlen
                         THEN SubSeq(q, Len(q) - maxlen + 1, Len(q)) ELSE q
             row(q) == [k \in 1..maxlen |->
                          IF q = <<>> THEN 0
                          ELSE IF padding = "post"
                               THEN IF k <= Len(trunc(q)) THEN trunc(q)[k] ELSE 0
                               ELSE IF k > maxlen - Len(trunc(q))
                                    THEN trunc(q)[k - (maxlen - Len(trunc(q)))]
                                    ELSE 0]
         IN  [exc |-> "none",
              shape |-> <<Len(sequences), maxlen>>,
              x |-> [i \in 1..Len(sequences) |-> row(sequences[i])]]

\* the longest word of the first sentence only
maxlen_word_first(sequences) ==
    IF sequences = <<>> THEN 0 ELSE MaxLen(sequences[1])

\* maxlen_sent and maxlen_word of pad_nested_sequences
maxlen_sent(sequences) == MaxLen(sequences)
maxlen_word(sequences) == MaxLen(Chain(sequences))

\* np.zeros((n, a, b))
Zeros3(n, a, b) == [i \in 1..n |-> [j \in 1..a |-> [k \in 1..b |-> 0]]]

\* x[i, j, :len(word)] = word
SetSlice(x, i, j, word) ==
    [x EXCEPT ![i][j] = [k \in DOMAIN @ |-> IF k <= Len(word) THEN word[k] ELSE @[k]]]

\* the loop over the words of sentence i, from word j on
RECURSIVE FillSent(_, _, _, _)
FillSent(x, i, sent, j) ==
    IF j > Len(sent) THEN x ELSE FillSent(SetSlice(x, i, j, sent[j]), i, sent, j + 1)

\* the loop over the sentences, from sentence i on
RECURSIVE FillAll(_, _, _)
FillAll(x, sequences, i) ==
    IF i > Len(sequences) THEN x
    ELSE FillAll(FillSent(x, i, sequences[i], 1), sequences, i + 1)

pad_nested_sequences(sequences) ==
    LET ms == maxlen_sent(sequences)
        mw == maxlen_word(sequences)
    IN  [shape |-> <<Len(sequences), ms, mw>>,
         x |-> FillAll(Zeros3(Len(sequences), ms, mw), sequences, 1)]

\* keras to_categorical(y, n_labels) on the padded ids: a one-hot row of
\* width n_labels at every position, an IndexError on an id past the width
to_categorical(y, n_labels) ==
    IF \E i \in DOMAIN y.x : \E j \in DOMAIN y.x[i] : y.x[i][j] >= n_labels
    THEN [exc |-> "IndexError", shape |-> <<>>, x |-> <<>>]
    ELSE [exc |-> "none",
          shape |-> y.shape \o <<n_labels>>,
          x |-> [i \in DOMAIN y.x |-> [j \in DOMAIN y.x[i] |->
                   [k \in 1..n_labels |-> IF y.x[i][j] = k - 1 THEN 1 ELSE 0]]]]

EmptyArray == [shape |-> <<>>, x |-> <<>>]

\* the call left at the library's default padding
PadWordsPre(words) == pad_sequences(words, "pre")

\* words = pad_sequences(words, padding='post')
PadWords(words) == pad_sequences(words, "post")

\* what DynamicPreprocessor(n_labels).transform(X, y) returns or raises;
\* X is the pair [words, chars] that transform unpacks
DynTransformRet(n_labels, X, y) ==
    LET words == PadWords(X[1])
        chars == pad_nested_sequences(X[2])
        ypad == IF y.some THEN pad_sequences(y.val, "post")
                ELSE [exc |-> "none", shape |-> <<>>, x |-> <<>>]
        ycat == IF y.some /\ ypad.exc = "none" THEN to_categorical(ypad, n_labels)
                ELSE ypad
    IN  IF words.exc # "none" \/ ycat.exc # "none"
        THEN [exc |-> IF words.exc # "none" THEN words.exc ELSE ycat.exc,
              words |-> EmptyArray, chars |-> EmptyArray, y |-> EmptyArray]
        ELSE [exc |-> "none",
              words |-> [shape |-> words.shape, x |-> words.x],
              chars |-> chars,
              y |-> [shape |-> ycat.shape, x |-> ycat.x]]

-----------------------------------------------------------------------------
(* PadSpec: one batch, handed to DynamicPreprocessor.transform, and its    *)
(* nested character ids handed to pad_nested_sequences.  A batch is drawn  *)
(* by its shape (the sentences, the words of each, the length of each      *)
(* word); every word and every character of it has an id of its own, so    *)
(* that an id out of place shows.                                          *)

\* sentences per batch, words per sentence, characters per word
PadMaxSents == 2
PadMaxSentLen == 2
PadMaxWordLen == 2
\* the width of the one-hot labels
PadNLabels == 2

\* per sentence, per word, the number of characters of the word
BatchShapes == SeqsUpTo(SeqsUpTo(0..PadMaxWordLen, PadMaxSentLen), PadMaxSents)
WordsOf(b) == [i \in 1..Len(b) |-> [j \in 1..Len(b[i]) |-> 10 * i + j]]
CharsOf(b) ==
    [i \in 1..Len(b) |-> [j \in 1..Len(b[i]) |->
        [k \in 1..b[i][j] |-> 100 * i + 10 * j + k]]]
\* label id 1 on every word of the word ids
OnesLike(words) == [i \in 1..Len(words) |-> [j \in 1..Len(words[i]) |-> 1]]

NoOut == [exc |-> "none", words |-> EmptyArray, chars |-> EmptyArray, y |-> EmptyArray]

PadInit ==
    /\ InitBuilder
    /\ vocab_init = {}
    /\ lowercase /\ num_norm /\ char_feature
    /\ rt = NoRt
    /\ threads = <<>>
    /\ \E b \in BatchShapes :
          batch = [pc |-> "in", n_labels |-> PadNLabels,
                   X |-> <<WordsOf(b), CharsOf(b)>>, y |-> None,
                   out |-> NoOut, nested |-> EmptyArray]

DynTransform ==
    /\ batch.pc = "in"
    /\ \E y \in {None, Some(OnesLike(batch.X[1]))} :
          batch' = [batch EXCEPT !.pc = "out", !.y = y,
                                 !.out = DynTransformRet(batch.n_labels, batch.X, y)]
    /\ UNCHANGED <<flags, dics, nfit, call, rt, threads>>

PadNested ==
    /\ batch.pc = "in"
    /\ batch' = [batch EXCEPT !.pc = "padded",
                              !.nested = pad_nested_sequences(batch.X[2])]
    /\ UNCHANGED <<flags, dics, nfit, call, rt, threads>>

PadNext == DynTransform \/ PadNested

PadSpec == PadInit /\ [][PadNext]_vars

SetMax(S) == IF S = {} THEN 0 ELSE CHOOSE m \in S : \A n \in S : n <= m

\* array a is the nested padding of seqs
IsNestedPadding(a, seqs) ==
    LET n == Len(seqs)
        ms == SetMax({Len(seqs[i]) : i \in DOMAIN seqs})
        mw == SetMax(UNION {{Len(seqs[i][j]) : j \in DOMAIN seqs[i]} : i \in DOMAIN seqs})
    IN  /\ a.shape = <<n, ms, mw>>
        /\ DOMAIN a.x = 1..n
        /\ \A i \in 1..n :
              /\ DOMAIN a.x[i] = 1..ms
              /\ \A j \in 1..ms :
                    /\ DOMAIN a.x[i][j] = 1..mw
                    /\ \A k \in 1..mw :
                          a.x[i][j][k] =
                              IF j <= Len(seqs[i]) /\ k <= Len(seqs[i][j])
                              THEN seqs[i][j][k] ELSE 0

\* C7: pad_nested_sequences returns an array of shape [batch size, longest
\* sentence, longest word of the whole batch] that holds each word's
\* character ids at the front of the word's row and 0 everywhere else.
C7_NestedPadding ==
    /\ batch.pc = "padded" => IsNestedPadding(batch.nested, batch.X[2])
    /\ (batch.pc = "out" /\ batch.out.exc = "none")
          => IsNestedPadding(batch.out.chars, batch.X[2])

C7_Witness ==
    /\ batch.pc = "padded"
    /\ batch.X[2] = <<<<<<111, 112>>, <<121>>>>, <<<<211>>>>>>
    /\ batch.nested.shape = <<2, 2, 2>>
    /\ batch.nested.x = <<<<<<111, 112>>, <<121, 0>>>>, <<<<211, 0>>, <<0, 0>>>>>>

\* C8: DynamicPreprocessor.transform returns the word ids as an array of
\* shape [n, longest sentence] whose row i is sentence i followed by zeros.
C8_WordPadding ==
    batch.pc = "out" =>
        LET words == batch.X[1]
            n == Len(words)
            m == SetMax({Len(words[i]) : i \in DOMAIN words})
            a == batch.out.words
        IN  /\ n >= 1 => batch.out.exc = "none"
            /\ batch.out.exc = "none" =>
                  /\ a.shape = <<n, m>>
                  /\ DOMAIN a.x = 1..n
                  /\ \A i \in 1..n :
                        /\ DOMAIN a.x[i] = 1..m
                        /\ \A k \in 1..m :
                              a.x[i][k] = IF k <= Len(words[i]) THEN words[i][k] ELSE 0

C8_Witness ==
    /\ batch.pc = "out"
    /\ batch.out.exc = "none"
    /\ batch.X[1] = <<<<11, 12>>, <<21>>>>
    /\ batch.out.words.shape = <<2, 2>>
    /\ batch.out.words.x = <<<<11, 12>>, <<21, 0>>>>

====
